---- MODULE Spec2Model ----
(***************************************************************************)
(* Instance lifecycle manager and webhook dispatcher of the WhatsApp API   *)
(* service (whatsapp.js).  One action is one synchronous segment of the    *)
(* JavaScript code: the event loop runs a segment to completion, and other *)
(* segments interleave only at an await or a timer.  A database statement  *)
(* takes effect in the segment that issues it; the code after its await is *)
(* the next segment.                                                       *)
(***************************************************************************)
EXTENDS Integers, Sequences, FiniteSets, Bags, TLC

\* ---------------------------------------------------------------- bounds
\* createInstance invocations (and their sockets) in progress at once, in Spec
MaxSocks == 1
\* the same in SpecOverlap, which explores overlapping createInstance calls
MaxOverlap == 2
\* retry timers pending at once
MaxTimers == 1
\* the same in SpecTimers, which explores retries armed while one is pending
MaxPending == 2
\* messages.upsert handler invocations in progress at once
MaxRelays == 2
\* rows of the messages table
MaxMessages == 2
\* createInstance invocations in progress at once in SpecRestore
MaxRestore == 3
\* largest value of sendWebhook's `retries` argument explored (its default is 3)
MaxRetriesArg == 4

\* ------------------------------------------------------ program constants
\* DisconnectReason.loggedOut
LoggedOut == 401
\* the version-mismatch / rate-limit close code
VersionMismatch == 405
\* a close code of neither class (DisconnectReason.connectionClosed)
ConnectionClosed == 428
\* line 302: retries = 3, the default number of sendWebhook attempts
DefaultRetries == 3
\* retryCount < 2: the 405 branch deletes the session and retries
MaxSessionResets == 2
\* retryCount < 5: the generic reconnection branch
MaxReconnects == 5
\* setTimeout delays of the two retry branches, in seconds
SessionResetDelay == 10
ReconnectDelay == 5

Ids == {"acme1"}
CloseCodes == {LoggedOut, VersionMismatch, ConnectionClosed}

NoUrl == "null"
NoTok == "null"
NoQr == "null"
NoPhone == "null"
\* webhook configurations a caller may pass: (url, token)
Cfgs == { [url |-> NoUrl, tok |-> NoTok], [url |-> "u1", tok |-> "t1"] }

NoRow == [status |-> "absent"]
\* what the last step did: the call or handler segment it ran, its outcome and
\* the effects it performed, in order (NoRet: nothing a claim observes)
Ret(op, i, rc, res, eff) == [op |-> op, id |-> i, rc |-> rc, res |-> res, eff |-> eff]
NoRet == Ret("none", "", 0, "", <<>>)
Free == [phase |-> "free"]

VARIABLES
    instances,  \* the in-memory Map: id -> socket slot (0 = no entry)
    socks,      \* createInstance invocations and the socket each one makes
    timers,     \* pending setTimeout retries (a bag)
    sessions,   \* ids whose ./sessions/<id> directory exists
    rows,       \* the instances table
    dels,       \* deleteInstance invocations awaiting sock.logout()
    ret,        \* outcome of the call made by the last step (NoRet if none)
    stale,      \* the pending timers that were armed before a deleteInstance of
                \* their id completed (history; the code keeps no such mark)
    wh,         \* the sendWebhook invocation under observation
    posts,      \* the HTTP POSTs it has issued: the X-Webhook-Token header of each
    audit,      \* the webhook_logs rows it has inserted: the status_code of each
    waits,      \* the backoff delays it has slept, in seconds
    messages,   \* the messages table, in insertion order
    webhook_logs, \* the webhook_logs table: the ids that have rows in it
    restore,    \* the restoreInstances invocation
    relays      \* the messages.upsert handler invocations in progress

lifevars == <<instances, socks, timers, sessions, dels, ret, stale>>
whvars == <<wh, posts, audit, waits>>
logvars == <<messages, webhook_logs>>
vars == <<instances, socks, timers, sessions, rows, dels, ret, stale, wh, posts, audit, waits,
          messages, webhook_logs, restore, relays>>

Slots == DOMAIN socks

\* phases of a createInstance invocation and of its socket
\*   auth    awaiting useMultiFileAuthState          (no socket yet)
\*   upsert  socket made, awaiting the INSERT        (not yet in the Map)
\*   conn    handlers registered, socket in the Map, connecting
\*   open    link established
\*   closed  connection.update 'close' was emitted; the record is dropped once
\*           every handler of the socket has returned
LivePhases == {"upsert", "conn", "open"}

IsFree(s) == socks[s].phase = "free"
FreeSlots == {s \in Slots : IsFree(s)}
NewSlot == CHOOSE s \in FreeSlots : \A t \in FreeSlots : s <= t

\* the sockets (live transport connections) of an id
LiveSocks(i) == {s \in Slots : ~IsFree(s) /\ socks[s].id = i /\ socks[s].phase \in LivePhases}

BagSize(b) == BagCardinality(b)
\* the pending timers of id i among the timers b
TimersOf(b, i) ==
    LET mine == {t \in BagToSet(b) : t.id = i}
    IN [t \in mine |-> CopiesIn(t, b)]

\* a closed socket whose handlers have all returned is dropped
Settle(sk) ==
    IF sk.phase = "closed" /\ sk.qrpc = "idle" /\ sk.openpc = "idle" /\ sk.closepc = "idle"
    THEN Free ELSE sk

\* ------------------------------------------------------------ createInstance
\* line 24: if (instances.has(instanceId)) throw new Error('Instance already exists')
AlreadyExists(i) == instances[i] # 0

\* createInstance with the session directory made before the existence check
CreateInstanceLateCheck(i, cfg, rc) ==
    /\ sessions' = sessions \cup {i}
    /\ IF AlreadyExists(i)
       THEN /\ ret' = Ret("create", i, rc, "Instance already exists", <<>>)
            /\ UNCHANGED <<instances, socks>>
       ELSE /\ FreeSlots # {}
            /\ socks' = [socks EXCEPT ![NewSlot] =
                   [phase |-> "auth", id |-> i, cfg |-> cfg, rc |-> rc, code |-> 0,
                    qrpc |-> "idle", openpc |-> "idle", closepc |-> "idle"]]
            /\ ret' = Ret("create", i, rc, "pending", <<>>)
            /\ UNCHANGED instances

\* lines 19-42: the segment of createInstance up to `await useMultiFileAuthState`
\* (the existence check, then mkdirSync of the session directory)
CreateInstance(i, cfg, rc) ==
    IF AlreadyExists(i)
    THEN /\ ret' = Ret("create", i, rc, "Instance already exists", <<>>)
         /\ UNCHANGED <<instances, socks, sessions>>
    ELSE /\ FreeSlots # {}
         /\ sessions' = sessions \cup {i}
         /\ socks' = [socks EXCEPT ![NewSlot] =
                [phase |-> "auth", id |-> i, cfg |-> cfg, rc |-> rc, code |-> 0,
                 qrpc |-> "idle", openpc |-> "idle", closepc |-> "idle"]]
         /\ ret' = Ret("create", i, rc, "pending", <<>>)
         /\ UNCHANGED instances

\* POST /api/instance/create: createInstance with the default retryCount = 0
ApiCreate(i, cfg) ==
    /\ CreateInstance(i, cfg, 0)
    /\ UNCHANGED <<timers, rows, dels>>
    /\ UNCHANGED <<whvars, stale, logvars, restore, relays>>

\* lines 73-81: INSERT ... ON DUPLICATE KEY UPDATE webhook_url, webhook_token, status
Upsert(row, cfg) ==
    IF row = NoRow
    THEN [status |-> "connecting", qr |-> NoQr, phone |-> NoPhone,
          url |-> cfg.url, tok |-> cfg.tok]
    ELSE [row EXCEPT !.url = cfg.url, !.tok = cfg.tok, !.status = "connecting"]

\* lines 42-81: auth state loaded; makeWASocket opens the transport connection
\* and the upsert of the instance row is issued
AuthLoaded(s) ==
    /\ socks[s].phase = "auth"
    /\ socks' = [socks EXCEPT ![s].phase = "upsert"]
    /\ rows' = [rows EXCEPT ![socks[s].id] = Upsert(@, socks[s].cfg)]
    /\ ret' = NoRet
    /\ UNCHANGED <<instances, timers, sessions, dels>>
    /\ UNCHANGED <<whvars, stale, logvars, restore, relays>>

\* lines 42-81 when the INSERT is going to fail: auth state loaded,
\* makeWASocket opens the transport connection, the upsert is issued and
\* changes nothing
AuthLoadedUpsertRejected(s) ==
    /\ socks[s].phase = "auth"
    /\ socks' = [socks EXCEPT ![s].phase = "insert failing"]
    /\ ret' = NoRet
    /\ UNCHANGED <<instances, timers, sessions, rows, dels>>
    /\ UNCHANGED <<whvars, stale, logvars, restore, relays>>

\* lines 73-81, 288-291: the awaited INSERT rejects: createInstance logs and
\* rethrows.  The socket made at line 46 has no handler yet (the first
\* sock.ev.on is at line 85), is not in the Map (line 283) and is not ended:
\* it stays connected, and nothing the program holds refers to it
UpsertThrows(s) ==
    /\ socks[s].phase = "insert failing"
    /\ socks' = [socks EXCEPT ![s].phase = "unreferenced"]
    /\ ret' = Ret("create", socks[s].id, socks[s].rc, "threw", <<>>)
    /\ UNCHANGED <<instances, timers, sessions, rows, dels>>
    /\ UNCHANGED <<whvars, stale, logvars, restore, relays>>

\* lines 82-286: handlers registered, instances.set(instanceId, sock), return
Registered(s) ==
    /\ socks[s].phase = "upsert"
    /\ socks' = [socks EXCEPT ![s].phase = "conn"]
    /\ instances' = [instances EXCEPT ![socks[s].id] = s]
    /\ ret' = NoRet
    /\ UNCHANGED <<timers, sessions, rows, dels>>
    /\ UNCHANGED <<whvars, stale, logvars, restore, relays>>

\* ------------------------------------------------- connection.update: qr
\* lines 94-99: a pairing challenge arrives; the handler awaits QRCode.toDataURL
QrEvent(s) ==
    /\ socks[s].phase = "conn"
    /\ socks[s].qrpc = "idle"
    /\ socks' = [socks EXCEPT ![s].qrpc = "render"]
    /\ ret' = NoRet
    /\ UNCHANGED <<instances, timers, sessions, rows, dels>>
    /\ UNCHANGED <<whvars, stale, logvars, restore, relays>>

\* the UPDATE of the qr handler without the payload
QrUpdateStatusOnly(row) ==
    IF row = NoRow THEN row ELSE [row EXCEPT !.status = "connecting"]

\* lines 102-105: UPDATE instances SET qr_code = ?, status = 'connecting'
QrUpdate(row) ==
    IF row = NoRow THEN row ELSE [row EXCEPT !.qr = "qr", !.status = "connecting"]

QrPersist(s) ==
    /\ ~IsFree(s)
    /\ socks[s].qrpc = "render"
    /\ socks' = [socks EXCEPT ![s].qrpc = "emit"]
    /\ rows' = [rows EXCEPT ![socks[s].id] = QrUpdate(@)]
    /\ ret' = NoRet
    /\ UNCHANGED <<instances, timers, sessions, dels>>
    /\ UNCHANGED <<whvars, stale, logvars, restore, relays>>

\* lines 109-114: sendWebhook(qr_updated)
QrEmit(s) ==
    /\ ~IsFree(s)
    /\ socks[s].qrpc = "emit"
    /\ socks' = [socks EXCEPT ![s] = Settle([@ EXCEPT !.qrpc = "idle"])]
    /\ ret' = Ret("qrEmit", socks[s].id, socks[s].rc, "qr_updated",
                  <<[op |-> "sendWebhook", n |-> 0, why |-> "qr",
                     reg |-> instances[socks[s].id] # 0]>>)
    /\ UNCHANGED <<instances, timers, sessions, rows, dels>>
    /\ UNCHANGED <<whvars, stale, logvars, restore, relays>>

\* ----------------------------------------------- connection.update: open
\* the UPDATE of the open handler without qr_code = NULL
OpenUpdateKeepsQr(row) ==
    IF row = NoRow THEN row
    ELSE [row EXCEPT !.status = "connected", !.phone = "5551234"]

\* lines 123-126: UPDATE instances SET status = 'connected', phone_number = ?, qr_code = NULL
OpenUpdate(row) ==
    IF row = NoRow THEN row
    ELSE [row EXCEPT !.status = "connected", !.phone = "5551234", !.qr = NoQr]

\* lines 121-126: link established
OpenEvent(s) ==
    /\ socks[s].phase = "conn"
    /\ socks' = [socks EXCEPT ![s].phase = "open", ![s].openpc = "emit"]
    /\ rows' = [rows EXCEPT ![socks[s].id] = OpenUpdate(@)]
    /\ ret' = NoRet
    /\ UNCHANGED <<instances, timers, sessions, dels>>
    /\ UNCHANGED <<whvars, stale, logvars, restore, relays>>

\* lines 130-135: sendWebhook(connected)
OpenEmit(s) ==
    /\ ~IsFree(s)
    /\ socks[s].openpc = "emit"
    /\ socks' = [socks EXCEPT ![s] = Settle([@ EXCEPT !.openpc = "idle"])]
    /\ ret' = Ret("openEmit", socks[s].id, socks[s].rc, "connected",
                  <<[op |-> "sendWebhook", n |-> 0, why |-> "5551234",
                     reg |-> instances[socks[s].id] # 0]>>)
    /\ UNCHANGED <<instances, timers, sessions, rows, dels>>
    /\ UNCHANGED <<whvars, stale, logvars, restore, relays>>

\* ---------------------------------------------- connection.update: close
\* an effect of a handler, in the order the code performs it
Eff(op, n, why) == [op |-> op, n |-> n, why |-> why]
Ops(eff) == [k \in 1..Len(eff) |-> eff[k].op]
Has(eff, op) == \E k \in 1..Len(eff) : eff[k].op = op

\* shouldReconnect that ignores the logged-out code
ShouldReconnectAlways(code) == TRUE

\* line 140: shouldReconnect = statusCode !== DisconnectReason.loggedOut
ShouldReconnect(code) == code # LoggedOut

\* the 405 branch without its retryCount cutoff
SessionResetAnyCount(code, rc) == code = VersionMismatch

\* lines 148-152: statusCode === 405 and retryCount < 2
SessionReset(code, rc) == code = VersionMismatch /\ rc < MaxSessionResets

\* the reconnection guard with retryCount <= 5
ReconnectOffByOne(code, rc) == code # LoggedOut /\ rc <= MaxReconnects

\* line 170: shouldReconnect && retryCount < 5
Reconnect(code, rc) == ShouldReconnect(code) /\ rc < MaxReconnects

\* the class of a close code
CodeName(code) ==
    IF code = LoggedOut THEN "loggedOut"
    ELSE IF code = VersionMismatch THEN "405" ELSE "other"

\* the disconnected event with the reason failed whatever the code
DisconnectReasonFailed(code) == "failed"

\* line 183: reason of the disconnected event
DisconnectReasonOf(code) == IF code = LoggedOut THEN "logged_out" ELSE "failed"

\* the close handler with instances.delete as its last effect instead of its first
CloseEffectsDeleteLast(code, rc) ==
    (IF code = VersionMismatch /\ rc < MaxSessionResets
     THEN <<Eff("rmSync", 0, ""), Eff("setTimeout", SessionResetDelay, "")>>
     ELSE IF code # LoggedOut /\ rc < MaxReconnects
     THEN <<Eff("setTimeout", ReconnectDelay, "")>>
     ELSE <<Eff("UPDATE", 0, "disconnected")>>)
    \o <<Eff("instances.delete", 0, "")>>

\* lines 138-178: what the close handler does before its first await, in order
CloseEffects(code, rc) ==
    <<Eff("instances.delete", 0, "")>> \o
    (IF SessionReset(code, rc)
     THEN <<Eff("rmSync", 0, ""), Eff("setTimeout", SessionResetDelay, "")>>
     ELSE IF Reconnect(code, rc)
     THEN <<Eff("setTimeout", ReconnectDelay, "")>>
     ELSE <<Eff("UPDATE", 0, "disconnected")>>)

\* line 178: UPDATE instances SET status = 'disconnected', qr_code = NULL
DisconnectUpdate(row) ==
    IF row = NoRow THEN row ELSE [row EXCEPT !.status = "disconnected", !.qr = NoQr]

\* the timer a close handler of socket record sk arms: the closure keeps the
\* arguments of the createInstance call that made the socket
TimerOf(sk, delay) == [id |-> sk.id, cfg |-> sk.cfg, rc |-> sk.rc, delay |-> delay]

\* effects that empty the Map and update every row
ApplyEffectEveryId(st, e, sk) ==
    CASE e.op = "instances.delete" -> [st EXCEPT !.inst = [i \in DOMAIN st.inst |-> 0]]
      [] e.op = "rmSync"           -> [st EXCEPT !.sess = @ \ {sk.id}]
      [] e.op = "setTimeout"       -> [st EXCEPT !.tim = @ (+) SetToBag({TimerOf(sk, e.n)})]
      [] e.op = "UPDATE"           ->
            [st EXCEPT !.rows = [i \in DOMAIN st.rows |-> DisconnectUpdate(st.rows[i])]]

\* one effect applied to st = [inst, sess, tim, rows]
ApplyEffect(st, e, sk) ==
    CASE e.op = "instances.delete" -> [st EXCEPT !.inst[sk.id] = 0]
      [] e.op = "rmSync"           -> [st EXCEPT !.sess = @ \ {sk.id}]
      [] e.op = "setTimeout"       -> [st EXCEPT !.tim = @ (+) SetToBag({TimerOf(sk, e.n)})]
      [] e.op = "UPDATE"           -> [st EXCEPT !.rows[sk.id] = DisconnectUpdate(@)]

\* a log entry: the effect, and whether the Map held the id when it was performed
Logged(e, st, sk) == [op |-> e.op, n |-> e.n, why |-> e.why, reg |-> st.inst[sk.id] # 0]

RECURSIVE RunEffects(_, _, _, _)
\* the effects es performed in order from st; acc is the log so far
RunEffects(es, st, sk, acc) ==
    IF es = <<>> THEN [st |-> st, log |-> acc]
    ELSE RunEffects(Tail(es), ApplyEffect(st, Head(es), sk), sk,
                    Append(acc, Logged(Head(es), st, sk)))

\* lines 138-178: the transport emits connection.update 'close' with statusCode
\* code; the handler runs to its first await (or to its end).  Explored while
\* the id has at most `bound` timers pending.
CloseWithin(s, code, bound) ==
    /\ socks[s].phase \in {"conn", "open"}
    /\ LET sk == socks[s]
           r == RunEffects(CloseEffects(code, sk.rc),
                           [inst |-> instances, sess |-> sessions, tim |-> timers, rows |-> rows],
                           sk, <<>>)
       IN /\ BagSize(TimersOf(r.st.tim, sk.id)) <= bound
          /\ instances' = r.st.inst
          /\ sessions' = r.st.sess
          /\ timers' = r.st.tim
          /\ rows' = r.st.rows
          /\ socks' = [socks EXCEPT ![s] = Settle([@ EXCEPT
                          !.phase = "closed", !.code = code,
                          !.closepc = IF Has(r.log, "UPDATE") THEN "emit" ELSE "idle"])]
          /\ ret' = Ret("close", sk.id, sk.rc, CodeName(code), r.log)
    /\ UNCHANGED dels
    /\ UNCHANGED <<whvars, stale, logvars, restore, relays>>

CloseEvent(s, code) == CloseWithin(s, code, MaxTimers)

\* lines 180-185: after the awaited UPDATE, sendWebhook(disconnected, reason)
CloseEmit(s) ==
    /\ ~IsFree(s)
    /\ socks[s].closepc = "emit"
    /\ socks' = [socks EXCEPT ![s] = Settle([@ EXCEPT !.closepc = "idle"])]
    /\ ret' = Ret("closeEmit", socks[s].id, socks[s].rc, CodeName(socks[s].code),
                  <<Logged(Eff("sendWebhook", 0, DisconnectReasonOf(socks[s].code)),
                           [inst |-> instances], socks[s])>>)
    /\ UNCHANGED <<instances, timers, sessions, rows, dels>>
    /\ UNCHANGED <<whvars, stale, logvars, restore, relays>>

\* a retry that passes retryCount on without incrementing it
TimerFiresSameCount(t) ==
    /\ BagIn(t, timers)
    /\ timers' = timers (-) SetToBag({t})
    /\ CreateInstance(t.id, t.cfg, t.rc)
    /\ stale' = stale \cap BagToSet(timers')
    /\ UNCHANGED <<rows, dels>>
    /\ UNCHANGED <<whvars, logvars, restore, relays>>

\* lines 161-164, 172-175: a retry timer fires:
\* createInstance(instanceId, clientName, webhookUrl, webhookToken, retryCount + 1)
TimerFires(t) ==
    /\ BagIn(t, timers)
    /\ timers' = timers (-) SetToBag({t})
    /\ CreateInstance(t.id, t.cfg, t.rc + 1)
    /\ stale' = stale \cap BagToSet(timers')
    /\ UNCHANGED <<rows, dels>>
    /\ UNCHANGED <<whvars, logvars, restore, relays>>

\* ------------------------------------------------------------ deleteInstance
\* the messages table without the rows of instance i
MessagesNotOf(i) ==
    LET Other(m) == m.inst # i IN SelectSeq(messages, Other)

\* the removal that leaves the session directory in place
DeleteStoredKeepsSession(i) ==
    /\ sessions' = sessions
    /\ rows' = [rows EXCEPT ![i] = NoRow]
    /\ messages' = MessagesNotOf(i)
    /\ stale' = stale \cup {t \in BagToSet(timers) : t.id = i}

\* lines 499-506: rmSync of the session directory, DELETE FROM instances;
\* the foreign key of messages (ON DELETE CASCADE) removes the id's messages,
\* webhook_logs has no foreign key
DeleteStored(i) ==
    /\ sessions' = sessions \ {i}
    /\ rows' = [rows EXCEPT ![i] = NoRow]
    /\ messages' = MessagesNotOf(i)
    /\ stale' = stale \cup {t \in BagToSet(timers) : t.id = i}

\* lines 485-492, 499-506: deleteInstance; with a socket in the Map the call
\* awaits sock.logout(), without one it goes on to the removal at once
DeleteCall(i) ==
    /\ dels[i] = 0
    /\ IF instances[i] # 0
       THEN /\ dels' = [dels EXCEPT ![i] = instances[i]]
            /\ UNCHANGED <<instances, sessions, rows, stale, messages>>
            /\ ret' = NoRet
       ELSE /\ DeleteStored(i)
            /\ ret' = Ret("delete", i, 0, "success", <<>>)
            /\ UNCHANGED <<instances, dels>>
    /\ UNCHANGED <<socks, timers>>
    /\ UNCHANGED <<whvars, webhook_logs, restore, relays>>

\* lines 492-510: sock.logout() has resolved or thrown (the throw is only logged):
\* instances.delete, then the removal
DeleteResume(i) ==
    /\ dels[i] # 0
    /\ dels' = [dels EXCEPT ![i] = 0]
    /\ instances' = [instances EXCEPT ![i] = 0]
    /\ DeleteStored(i)
    /\ \E logout \in {"resolved", "threw"} :
          ret' = Ret("delete", i, 0, "success", <<Eff("logout", 0, logout)>>)
    /\ UNCHANGED <<socks, timers>>
    /\ UNCHANGED <<whvars, webhook_logs, restore, relays>>

\* ---------------------------------------------------------- restoreInstances
\* lines 288-291: useMultiFileAuthState rejects: createInstance logs and rethrows
CreateThrows(s) ==
    /\ socks[s].phase = "auth"
    /\ socks' = [socks EXCEPT ![s] = Free]
    /\ ret' = Ret("create", socks[s].id, socks[s].rc, "threw", <<>>)
    /\ UNCHANGED <<instances, timers, sessions, rows, dels>>
    /\ UNCHANGED <<whvars, stale, logvars, restore, relays>>

\* a SELECT that leaves out only the disconnected rows
ToRestoreNotDisconnected(found) ==
    {i \in DOMAIN found : found[i] # NoRow /\ found[i].status # "disconnected"}

\* lines 523-526: SELECT * FROM instances WHERE status = 'connected'
ToRestore(found) ==
    {i \in DOMAIN found : found[i] # NoRow /\ found[i].status = "connected"}

\* restoreInstances after its SELECT: snap is the table as the SELECT saw it,
\* todo the selected rows not yet iterated, calls the createInstance calls
\* made and results how each one ended
Restoring(pc, query, snap, todo, cur, calls, results) ==
    [pc |-> pc, query |-> query, snap |-> snap, todo |-> todo, cur |-> cur,
     calls |-> calls, results |-> results]

\* lines 521-526: restoreInstances is called (at server start) and awaits the SELECT
RestoreCall ==
    /\ restore.pc = "idle"
    /\ restore' = [pc |-> "select"]
    /\ ret' = NoRet
    /\ UNCHANGED <<instances, socks, timers, sessions, rows, dels>>
    /\ UNCHANGED <<whvars, stale, logvars, relays>>

\* lines 523-530: the SELECT returns; the loop starts (or ends at once)
RestoreSelected ==
    /\ restore.pc = "select"
    /\ restore' = Restoring(IF ToRestore(rows) = {} THEN "done" ELSE "loop", "ok",
                            rows, ToRestore(rows), "", <<>>, <<>>)
    /\ ret' = NoRet
    /\ UNCHANGED <<instances, socks, timers, sessions, rows, dels>>
    /\ UNCHANGED <<whvars, stale, logvars, relays>>

\* lines 544-546: the SELECT throws: the error is logged and restoreInstances returns
RestoreSelectFails ==
    /\ restore.pc = "select"
    /\ restore' = Restoring("done", "threw", rows, {}, "", <<>>, <<>>)
    /\ ret' = NoRet
    /\ UNCHANGED <<instances, socks, timers, sessions, rows, dels>>
    /\ UNCHANGED <<whvars, stale, logvars, relays>>

\* whether restoreInstances goes on with the loop or has finished it
AfterOne(todo) == IF todo = {} THEN "done" ELSE "loop"

\* lines 530-537: the next row of the result: await createInstance(instance.id,
\* instance.client_name, instance.webhook_url, instance.webhook_token); a
\* synchronous 'Instance already exists' is caught at once (lines 538-540)
RestoreCreate(i) ==
    /\ restore.pc = "loop"
    /\ i \in restore.todo
    /\ LET row == restore.snap[i]
           call == [id |-> i, name |-> row.name, url |-> row.url, tok |-> row.tok, rc |-> 0]
       IN /\ CreateInstance(i, [url |-> row.url, tok |-> row.tok], 0)
          /\ restore' = IF AlreadyExists(i)
                         THEN [restore EXCEPT !.pc = AfterOne(restore.todo \ {i}),
                                              !.todo = @ \ {i}, !.cur = i,
                                              !.calls = Append(@, call),
                                              !.results = Append(@, "failed")]
                         ELSE [restore EXCEPT !.pc = "await", !.todo = @ \ {i}, !.cur = i,
                                              !.calls = Append(@, call)]
    /\ UNCHANGED <<timers, rows, dels>>
    /\ UNCHANGED <<whvars, stale, logvars, relays>>

\* lines 532-541: the awaited createInstance has returned or thrown (the throw
\* is only logged); the loop goes on
RestoreResume ==
    /\ restore.pc = "await"
    /\ \A s \in Slots : (~IsFree(s) /\ socks[s].id = restore.cur) =>
                            socks[s].phase \notin {"auth", "upsert"}
    /\ restore' = [restore EXCEPT
                      !.pc = AfterOne(restore.todo),
                      !.results = Append(@, IF instances[restore.cur] # 0
                                            THEN "restored" ELSE "failed")]
    /\ ret' = NoRet
    /\ UNCHANGED <<instances, socks, timers, sessions, rows, dels>>
    /\ UNCHANGED <<whvars, stale, logvars, relays>>

\* ------------------------------------------------------------- updateWebhook
\* an UPDATE that also resets the status
WebhookUpdateResetsStatus(row, cfg) ==
    IF row = NoRow THEN row
    ELSE [row EXCEPT !.url = cfg.url, !.tok = cfg.tok, !.status = "connecting"]

\* lines 443-446: UPDATE instances SET webhook_url = ?, webhook_token = ? WHERE id = ?
WebhookUpdate(row, cfg) ==
    IF row = NoRow THEN row ELSE [row EXCEPT !.url = cfg.url, !.tok = cfg.tok]

\* lines 441-450: updateWebhook (for an id that has a row; without one the
\* UPDATE matches nothing and the call returns success all the same)
UpdateWebhook(i, cfg) ==
    /\ rows[i] # NoRow
    /\ rows' = [rows EXCEPT ![i] = WebhookUpdate(@, cfg)]
    /\ ret' = Ret("updateWebhook", i, 0, "success",
                  <<[op |-> "UPDATE", n |-> 0, why |-> cfg.url, tok |-> cfg.tok]>>)
    /\ UNCHANGED <<instances, socks, timers, sessions, dels>>
    /\ UNCHANGED <<whvars, stale, logvars, restore, relays>>

\* --------------------------------------------------------------- sendWebhook
\* what an HTTP POST can come back with: a 2xx response (axios resolves), an
\* error response (axios throws, error.response.status is set) or no response
\* at all (axios throws without error.response: timeout, refused connection)
Outcomes == {"2xx", "5xx", "no response"}

\* lines 342, 349: response.status, or error.response?.status || 0
StatusCode(r) == IF r = "2xx" THEN 200 ELSE IF r = "5xx" THEN 500 ELSE 0

\* a header that is always sent
TokenHeaderAlways(tok) == tok

\* lines 320-328: the X-Webhook-Token header is set only if (webhookToken)
TokenHeader(tok) == IF tok # NoTok THEN tok ELSE "absent"

\* giving up one attempt early
LastAttemptEarly(attempt, retries) == attempt >= retries - 1

\* line 362: if (attempt === retries) return false
LastAttempt(attempt, retries) == attempt = retries

RECURSIVE Pow2(_)
Pow2(k) == IF k = 0 THEN 1 ELSE 2 * Pow2(k - 1)

\* a backoff that grows by one second per attempt
BackoffLinear(attempt) == attempt

\* line 367: setTimeout(resolve, 1000 * Math.pow(2, attempt - 1)), in seconds
Backoff(attempt) == Pow2(attempt - 1)

Delivery(pc, i, url, tok, n, attempt, last, res) ==
    [pc |-> pc, id |-> i, url |-> url, tok |-> tok, n |-> n,
     attempt |-> attempt, last |-> last, res |-> res]

\* lines 302-336: sendWebhook is called; with a webhookUrl argument the first
\* axios.post is issued at once, without one the SELECT of the row is awaited
WhCall(i, url, tok, n) ==
    /\ wh.pc \in {"idle", "done"}
    /\ audit' = <<>>
    /\ waits' = <<>>
    /\ IF url # NoUrl
       THEN /\ wh' = Delivery("post", i, url, tok, n, 1, "", "")
            /\ posts' = <<TokenHeader(tok)>>
       ELSE /\ wh' = Delivery("lookup", i, url, tok, n, 0, "", "")
            /\ posts' = <<>>
    /\ UNCHANGED <<lifevars, rows, logvars, restore>>

\* the lookup that only misses when there is no row
NoWebhookOnlyWithoutRow(found) == found = NoRow

\* line 311: !instanceData[0]?.webhook_url
NoWebhook(found) == found = NoRow \/ found.url = NoUrl

\* lines 306-336: the row has been read: no webhook_url, return false;
\* otherwise url and token are the row's and the first axios.post is issued
WhLookup ==
    /\ wh.pc = "lookup"
    /\ LET row == rows[wh.id]
       IN IF NoWebhook(row)
          THEN /\ wh' = [wh EXCEPT !.pc = "done", !.res = "false"]
               /\ UNCHANGED posts
          ELSE /\ wh' = [wh EXCEPT !.pc = "post", !.url = row.url, !.tok = row.tok,
                                   !.attempt = 1]
               /\ posts' = Append(posts, TokenHeader(row.tok))
    /\ UNCHANGED <<lifevars, rows, audit, waits, logvars, restore, relays>>

\* lines 333-359: the POST comes back with r; the INSERT INTO webhook_logs of
\* this attempt is issued
WhResponse(r) ==
    /\ wh.pc = "post"
    /\ wh' = [wh EXCEPT !.pc = "logged", !.last = r]
    /\ audit' = Append(audit, StatusCode(r))
    /\ webhook_logs' = webhook_logs \cup {wh.id}
    /\ UNCHANGED <<lifevars, rows, posts, waits, messages, restore, relays>>

\* what the inner catch holds after the INSERT of a 2xx attempt has rejected:
\* an error without a response
InsertFailed == "insert failed"

\* lines 333-359 when the INSERT INTO webhook_logs is going to fail: the POST
\* comes back with r, the INSERT of this attempt is issued and writes nothing
WhResponseLogRejected(r) ==
    /\ wh.pc = "post"
    /\ wh' = [wh EXCEPT !.pc = "log failing", !.last = r]
    /\ UNCHANGED <<lifevars, rows, posts, audit, waits, logvars, restore, relays>>

\* the awaited INSERT rejects.  After a 2xx it is the INSERT of line 339,
\* inside the try: the catch of line 348 takes the rejection for a failed
\* attempt (statusCode 0) and issues the INSERT of line 355, which writes its
\* row or is going to fail too (again).  Otherwise it is the INSERT of line
\* 355, inside that catch: the rejection leaves the loop and the catch of
\* line 371 returns false.
WhLogRejected(again) ==
    /\ wh.pc = "log failing"
    /\ IF wh.last = "2xx"
       THEN /\ wh' = [wh EXCEPT !.pc = IF again THEN "log failing" ELSE "logged",
                                !.last = InsertFailed]
            /\ audit' = IF again THEN audit ELSE Append(audit, StatusCode(InsertFailed))
            /\ webhook_logs' = IF again THEN webhook_logs ELSE webhook_logs \cup {wh.id}
       ELSE /\ wh' = [wh EXCEPT !.pc = "done", !.res = "false"]
            /\ UNCHANGED <<audit, webhook_logs>>
    /\ UNCHANGED <<lifevars, rows, posts, waits, messages, restore, relays>>

\* lines 345-367: after the awaited INSERT: return true on a 2xx, return false
\* after the last attempt, otherwise sleep the backoff
WhLogged ==
    /\ wh.pc = "logged"
    /\ IF wh.last = "2xx"
       THEN /\ wh' = [wh EXCEPT !.pc = "done", !.res = "true"]
            /\ UNCHANGED waits
       ELSE IF LastAttempt(wh.attempt, wh.n)
       THEN /\ wh' = [wh EXCEPT !.pc = "done", !.res = "false"]
            /\ UNCHANGED waits
       ELSE /\ wh' = [wh EXCEPT !.pc = "backoff"]
            /\ waits' = Append(waits, Backoff(wh.attempt))
    /\ UNCHANGED <<lifevars, rows, posts, audit, logvars, restore, relays>>

\* lines 331-336: the backoff timer has fired: attempt++, the next axios.post
WhBackoffDone ==
    /\ wh.pc = "backoff"
    /\ wh' = [wh EXCEPT !.pc = "post", !.attempt = @ + 1]
    /\ posts' = Append(posts, TokenHeader(wh.tok))
    /\ UNCHANGED <<lifevars, rows, audit, waits, logvars, restore, relays>>

\* ---------------------------------------------------------- messages.upsert
Absent == "absent"
\* a media message without a caption
Bare == "no caption"

\* the messages (msg.key.fromMe and the fields of msg.message) the handler is
\* given: each field is absent or populated
InboundMsgs ==
    [fromMe : BOOLEAN,
     conversation : {Absent, "hello"},
     extendedText : {Absent, "a reply"},
     image : {Absent, Bare, "image caption"},
     video : {Absent, Bare, "video caption"},
     audio : {Absent, Bare},
     document : {Absent, Bare, "document caption"}]

\* lines 216, 219, 224: caption || ''
Caption(field) == IF field = Bare THEN "" ELSE field

\* a classification that looks at the image before the text
ClassifyImageFirst(msg) ==
    IF msg.image # Absent THEN [type |-> "image", text |-> Caption(msg.image)]
    ELSE IF msg.conversation # Absent THEN [type |-> "text", text |-> msg.conversation]
    ELSE IF msg.extendedText # Absent THEN [type |-> "text", text |-> msg.extendedText]
    ELSE IF msg.video # Absent THEN [type |-> "video", text |-> Caption(msg.video)]
    ELSE IF msg.audio # Absent THEN [type |-> "audio", text |-> ""]
    ELSE IF msg.document # Absent THEN [type |-> "document", text |-> Caption(msg.document)]
    ELSE [type |-> "text", text |-> ""]

\* lines 205-226: text = '', messageType = 'text', then the if / else if chain
Classify(msg) ==
    IF msg.conversation # Absent THEN [type |-> "text", text |-> msg.conversation]
    ELSE IF msg.extendedText # Absent THEN [type |-> "text", text |-> msg.extendedText]
    ELSE IF msg.image # Absent THEN [type |-> "image", text |-> Caption(msg.image)]
    ELSE IF msg.video # Absent THEN [type |-> "video", text |-> Caption(msg.video)]
    ELSE IF msg.audio # Absent THEN [type |-> "audio", text |-> ""]
    ELSE IF msg.document # Absent THEN [type |-> "document", text |-> Caption(msg.document)]
    ELSE [type |-> "text", text |-> ""]

\* a row of the messages table; row is its AUTO_INCREMENT id
MessageRow(row, inst, mid, dir, type, text, ack) ==
    [row |-> row, inst |-> inst, mid |-> mid, dir |-> dir, type |-> type,
     text |-> text, ack |-> ack]

\* the id the next INSERT INTO messages gets
NextRowId ==
    IF messages = <<>> THEN 1
    ELSE 1 + (CHOOSE r \in {messages[k].row : k \in 1..Len(messages)} :
                 \A k \in 1..Len(messages) : messages[k].row <= r)

FreeRelay == [pc |-> "free"]
NoRelays == [h \in 1..MaxRelays |-> FreeRelay]
Relays == DOMAIN relays
FreeRelays == {h \in Relays : relays[h].pc = "free"}
NewRelay == CHOOSE h \in FreeRelays : \A g \in FreeRelays : h <= g
\* some handler is awaiting the sendWebhook call it made
RelaySending == \E h \in Relays : relays[h].pc = "sending"

\* the message a messages.upsert event delivered
Event(msg, mid) == [op |-> "messages.upsert", n |-> 0, why |-> mid, msg |-> msg]

\* lines 195-241: messages.upsert with one message msg whose key.id is mid:
\* a message of our own is skipped; otherwise it is classified and inserted
\* with webhook_sent = false (the foreign key rejects the INSERT when the
\* instance row is gone; the throw is caught at line 275), and the SELECT of
\* the webhook configuration is awaited
MessagesUpsert(s, msg, mid) ==
    /\ socks[s].phase \in {"conn", "open"}
    /\ FreeRelays # {}
    /\ Len(messages) < MaxMessages
    /\ LET i == socks[s].id
           c == Classify(msg)
       IN IF msg.fromMe
          THEN /\ ret' = Ret("messages.upsert", i, 0, "skipped", <<Event(msg, mid)>>)
               /\ UNCHANGED <<messages, relays>>
          ELSE IF rows[i] = NoRow
          THEN /\ ret' = Ret("messages.upsert", i, 0, "rejected", <<Event(msg, mid)>>)
               /\ UNCHANGED <<messages, relays>>
          ELSE /\ ret' = Ret("messages.upsert", i, 0, "stored", <<Event(msg, mid)>>)
               /\ messages' = Append(messages,
                                 MessageRow(NextRowId, i, mid, "in", c.type, c.text, FALSE))
               /\ relays' = [relays EXCEPT ![NewRelay] =
                      [pc |-> "lookup", inst |-> i, mid |-> mid, row |-> NextRowId,
                       type |-> c.type, text |-> c.text]]
    /\ UNCHANGED <<instances, socks, timers, sessions, rows, dels>>
    /\ UNCHANGED <<whvars, stale, webhook_logs, restore>>

\* lines 238-273: the SELECT has returned: with a webhook_url the handler
\* calls sendWebhook(instanceId, payload, webhookUrl, webhookToken), which
\* issues its first POST; without one it warns and is done
RelayLookup(h) ==
    /\ relays[h].pc = "lookup"
    /\ LET row == rows[relays[h].inst]
       IN IF NoWebhook(row)
          THEN /\ relays' = [relays EXCEPT ![h] = FreeRelay]
               /\ UNCHANGED <<whvars, lifevars, rows, logvars, restore>>
          ELSE /\ ~RelaySending
               /\ WhCall(relays[h].inst, row.url, row.tok, DefaultRetries)
               /\ relays' = [relays EXCEPT ![h].pc = "sending"]

\* lines 266-269: UPDATE messages SET webhook_sent = TRUE WHERE message_id = ?
MarkSent(table, mid) ==
    [k \in 1..Len(table) |->
        IF table[k].mid = mid THEN [table[k] EXCEPT !.ack = TRUE] ELSE table[k]]

\* lines 262-270: sendWebhook has returned: if (sent) the UPDATE is issued
RelayAck(h) ==
    /\ relays[h].pc = "sending"
    /\ wh.pc = "done"
    /\ relays' = [relays EXCEPT ![h] = FreeRelay]
    /\ messages' = IF wh.res = "true"
                   THEN MarkSent(messages, relays[h].mid)
                   ELSE messages
    /\ UNCHANGED <<lifevars, rows, whvars, webhook_logs, restore>>

\* --------------------------------------------------------------- sendMessage
\* a lookup that always finds a socket
NoSockNever(i) == FALSE

\* lines 386-388: const sock = instances.get(instanceId); if (!sock)
NoSock(i) == instances[i] = 0

\* lines 384-433: sendMessage(instanceId, phone, text, base64Image).  Without
\* a socket in the Map it throws at once.  With one it awaits
\* sock.sendMessage (an image with caption if base64Image is given, a text
\* otherwise).  When that resolves, the parameter list of the INSERT INTO
\* messages is evaluated: it reads `mediaUrl` (line 419), which no scope of
\* sendMessage declares (its only declaration is the `let` of line 207, inside
\* the messages.upsert handler), so a ReferenceError is thrown before
\* pool.query is called; the catch logs and rethrows it.  The segment after
\* the await touches no state, so the call is one step.
SendMessage(i, image) ==
    /\ IF NoSock(i)
       THEN ret' = Ret("sendMessage", i, 0, "Instance not found or not connected", <<>>)
       ELSE \E sent \in {"resolved", "rejected"} :
               ret' = Ret("sendMessage", i, 0,
                          IF sent = "rejected" THEN "send failed"
                          ELSE "mediaUrl is not defined",
                          <<[op |-> "sock.sendMessage", n |-> 0,
                             why |-> IF image THEN "image" ELSE "text", reg |-> TRUE]>>)
    /\ UNCHANGED <<instances, socks, timers, sessions, rows, dels>>
    /\ UNCHANGED <<whvars, stale, logvars, restore, relays>>

\* ------------------------------------------------------------- the HTTP API
\* process.env.API_KEY or a request header that is not set
Unset == "undefined"
\* process.env.API_KEY: nothing in the program requires it to be set
ApiKeys == {Unset, "k1"}
\* req.headers['x-api-key']
Headers == {Unset, "k1", "k2"}
\* the routes registered with authMiddleware
Routes == {"create", "status", "webhook", "send", "delete", "logs", "list"}

\* server.js line 27, negated: apiKey !== process.env.API_KEY answers 401
Authorized(header, key) == header = key

\* server.js lines 24-31: authMiddleware answers 401 or calls next(), which
\* runs the handler of the route
AuthMiddleware(route, key, header) ==
    /\ ret' = Ret("authMiddleware", "", 0,
                  IF Authorized(header, key) THEN "next" ELSE "401",
                  <<[op |-> route, n |-> 0, why |-> header, key |-> key]>>)
    /\ UNCHANGED <<instances, socks, timers, sessions, rows, dels>>
    /\ UNCHANGED <<whvars, stale, logvars, restore, relays>>

\* the handler of a route runs when authMiddleware has called next()
Routed(route) ==
    ret.op = "authMiddleware" /\ ret.res = "next" /\ ret.eff[1].op = route

\* lines 461-479 and server.js lines 165-178: the row, with is_active, or 404
GetInstanceStatus(i) ==
    /\ ret' = Ret("status", i, 0,
                  IF rows[i] = NoRow THEN "404" ELSE rows[i].status,
                  <<[op |-> "is_active", n |-> 0, why |-> "", reg |-> instances[i] # 0]>>)
    /\ UNCHANGED <<instances, socks, timers, sessions, rows, dels>>
    /\ UNCHANGED <<whvars, stale, logvars, restore, relays>>

\* server.js lines 389-402: the webhook_logs rows of an id
WebhookLogs(i) ==
    /\ ret' = Ret("logs", i, 0, IF i \in webhook_logs THEN "rows" ELSE "[]", <<>>)
    /\ UNCHANGED <<instances, socks, timers, sessions, rows, dels>>
    /\ UNCHANGED <<whvars, stale, logvars, restore, relays>>

\* server.js lines 425-432: every row of the instances table
ListInstances ==
    /\ ret' = Ret("list", "", 0,
                  IF \E i \in DOMAIN rows : rows[i] # NoRow THEN "rows" ELSE "[]", <<>>)
    /\ UNCHANGED <<instances, socks, timers, sessions, rows, dels>>
    /\ UNCHANGED <<whvars, stale, logvars, restore, relays>>

\* ------------------------------------------------------------ specification
\* the two log tables are empty
NoStore ==
    /\ messages = <<>>
    /\ webhook_logs = {}

\* restoreInstances is not running
NoRestore == [pc |-> "idle"]

\* no sendWebhook invocation is under observation
WhIdle ==
    /\ wh = [pc |-> "idle"]
    /\ posts = <<>>
    /\ audit = <<>>
    /\ waits = <<>>

Init ==
    /\ instances = [i \in Ids |-> 0]
    /\ socks = [s \in 1..MaxSocks |-> Free]
    /\ timers = EmptyBag
    /\ sessions = {}
    /\ rows = [i \in Ids |-> NoRow]
    /\ dels = [i \in Ids |-> 0]
    /\ ret = NoRet
    /\ stale = {}
    /\ WhIdle
    /\ NoStore
    /\ restore = NoRestore
    /\ relays = NoRelays

Next ==
    \/ \E i \in Ids, cfg \in Cfgs : ApiCreate(i, cfg)
    \/ \E s \in Slots : AuthLoaded(s)
    \/ \E s \in Slots : Registered(s)
    \/ \E s \in Slots : QrEvent(s)
    \/ \E s \in Slots : QrPersist(s)
    \/ \E s \in Slots : QrEmit(s)
    \/ \E s \in Slots : OpenEvent(s)
    \/ \E s \in Slots : OpenEmit(s)
    \/ \E s \in Slots, code \in CloseCodes : CloseEvent(s, code)
    \/ \E s \in Slots : CloseEmit(s)
    \/ \E t \in BagToSet(timers) : TimerFires(t)
    \/ \E i \in Ids : DeleteCall(i)
    \/ \E i \in Ids : DeleteResume(i)
    \/ \E i \in Ids, cfg \in Cfgs : UpdateWebhook(i, cfg)

Spec == Init /\ [][Next]_vars

\* Overlapping createInstance invocations: more invocation slots, and of the
\* transport's events only the close (no pairing challenge, no link established)
InitOverlap ==
    /\ instances = [i \in Ids |-> 0]
    /\ socks = [s \in 1..MaxOverlap |-> Free]
    /\ timers = EmptyBag
    /\ sessions = {}
    /\ rows = [i \in Ids |-> NoRow]
    /\ dels = [i \in Ids |-> 0]
    /\ ret = NoRet
    /\ stale = {}
    /\ WhIdle
    /\ NoStore
    /\ restore = NoRestore
    /\ relays = NoRelays

NextOverlap ==
    \/ \E i \in Ids : ApiCreate(i, [url |-> "u1", tok |-> "t1"])
    \/ \E s \in Slots : AuthLoaded(s)
    \/ \E s \in Slots : Registered(s)
    \/ \E s \in Slots, code \in CloseCodes : CloseEvent(s, code)
    \/ \E s \in Slots : CloseEmit(s)
    \/ \E t \in BagToSet(timers) : TimerFires(t)
    \/ \E i \in Ids : DeleteCall(i)
    \/ \E i \in Ids : DeleteResume(i)

SpecOverlap == InitOverlap /\ [][NextOverlap]_vars

\* The webhook dispatcher alone: one sendWebhook invocation at a time, for an
\* instance whose row is absent, has no webhook or has one
StoredRows ==
    { NoRow,
      [status |-> "connected", qr |-> NoQr, phone |-> "5551234", url |-> NoUrl, tok |-> NoTok],
      [status |-> "connected", qr |-> NoQr, phone |-> "5551234", url |-> "u1", tok |-> NoTok],
      [status |-> "connected", qr |-> NoQr, phone |-> "5551234", url |-> "u1", tok |-> "t1"] }

InitWebhook ==
    /\ instances = [i \in Ids |-> 0]
    /\ socks = [s \in 1..MaxSocks |-> Free]
    /\ timers = EmptyBag
    /\ sessions = {}
    /\ rows \in [Ids -> StoredRows]
    /\ dels = [i \in Ids |-> 0]
    /\ ret = NoRet
    /\ stale = {}
    /\ WhIdle
    /\ NoStore
    /\ restore = NoRestore
    /\ relays = NoRelays

NextWebhook ==
    \/ \E i \in Ids, cfg \in Cfgs \cup {[url |-> "u1", tok |-> NoTok]}, n \in 1..MaxRetriesArg :
          WhCall(i, cfg.url, cfg.tok, n) /\ UNCHANGED relays
    \/ WhLookup
    \/ \E r \in Outcomes : WhResponse(r)
    \/ WhLogged
    \/ WhBackoffDone

SpecWebhook == InitWebhook /\ [][NextWebhook]_vars

\* Outbound messages: sendMessage while one instance is created, closes, is
\* retried and is deleted
NextSend ==
    \/ \E i \in Ids : ApiCreate(i, [url |-> "u1", tok |-> "t1"])
    \/ \E s \in Slots : AuthLoaded(s)
    \/ \E s \in Slots : Registered(s)
    \/ \E s \in Slots, code \in CloseCodes : CloseEvent(s, code)
    \/ \E s \in Slots : CloseEmit(s)
    \/ \E t \in BagToSet(timers) : TimerFires(t)
    \/ \E i \in Ids : DeleteCall(i)
    \/ \E i \in Ids : DeleteResume(i)
    \/ \E i \in Ids, image \in BOOLEAN : SendMessage(i, image)

SpecSend == Init /\ [][NextSend]_vars

\* protocol message ids (msg.key.id)
MsgIds == {"m1", "m2"}
\* a plain text message of somebody else
PlainText ==
    [fromMe |-> FALSE, conversation |-> "hello", extendedText |-> Absent, image |-> Absent,
     video |-> Absent, audio |-> Absent, document |-> Absent]

\* Two instances side by side: each is created (when it has no invocation in
\* progress and no retry pending), closes and is retried, while one lifecycle
\* event is delivered to a webhook that answers every POST with a 5xx
PairIds == {"acme1", "acme2"}

InitPair ==
    /\ instances = [i \in PairIds |-> 0]
    /\ socks = [s \in 1..MaxOverlap |-> Free]
    /\ timers = EmptyBag
    /\ sessions = {}
    /\ rows = [i \in PairIds |-> NoRow]
    /\ dels = [i \in PairIds |-> 0]
    /\ ret = NoRet
    /\ stale = {}
    /\ WhIdle
    /\ NoStore
    /\ restore = NoRestore
    /\ relays = NoRelays

NextPair ==
    \/ \E i \in PairIds :
          /\ ~\E s \in Slots : ~IsFree(s) /\ socks[s].id = i
          /\ \A u \in BagToSet(timers) : u.id # i
          /\ ApiCreate(i, [url |-> "u1", tok |-> "t1"])
    \/ \E s \in Slots : AuthLoaded(s)
    \/ \E s \in Slots : Registered(s)
    \/ \E s \in Slots, code \in CloseCodes : CloseEvent(s, code)
    \/ \E s \in Slots : CloseEmit(s)
    \/ \E t \in BagToSet(timers) : TimerFires(t)
    \/ \E i \in PairIds :
          wh.pc = "idle" /\ WhCall(i, NoUrl, NoTok, DefaultRetries) /\ UNCHANGED relays
    \/ WhLookup
    \/ WhResponse("5xx")
    \/ WhLogged
    \/ WhBackoffDone

SpecPair == InitPair /\ [][NextPair]_vars

\* The reconnection cycle: timers fire, awaited promises settle (the auth
\* state loads or its load rejects) and continuations run; when the transport
\* closes a connection, and whether the API creates the instance again, is up
\* to the environment
NextRetry ==
    \/ \E i \in Ids : ApiCreate(i, [url |-> "u1", tok |-> "t1"])
    \/ \E s \in Slots : AuthLoaded(s)
    \/ \E s \in Slots : CreateThrows(s)
    \/ \E s \in Slots : Registered(s)
    \/ \E s \in Slots, code \in CloseCodes : CloseEvent(s, code)
    \/ \E s \in Slots : CloseEmit(s)
    \/ \E t \in BagToSet(timers) : TimerFires(t)

SpecRetry ==
    /\ Init /\ [][NextRetry]_vars
    /\ WF_vars(\E t \in BagToSet(timers) : TimerFires(t))
    /\ WF_vars(\E s \in Slots : AuthLoaded(s) \/ CreateThrows(s))
    /\ WF_vars(\E s \in Slots : Registered(s))
    /\ WF_vars(\E s \in Slots : CloseEmit(s))

\* The HTTP API: every request goes through authMiddleware first
NextApi ==
    \/ \E route \in Routes, key \in ApiKeys, header \in Headers :
          AuthMiddleware(route, key, header)
    \/ \E i \in Ids, cfg \in Cfgs : Routed("create") /\ ApiCreate(i, cfg)
    \/ \E i \in Ids : Routed("status") /\ GetInstanceStatus(i)
    \/ \E i \in Ids, cfg \in Cfgs : Routed("webhook") /\ UpdateWebhook(i, cfg)
    \/ \E i \in Ids, image \in BOOLEAN : Routed("send") /\ SendMessage(i, image)
    \/ \E i \in Ids : Routed("delete") /\ DeleteCall(i)
    \/ \E i \in Ids : Routed("logs") /\ WebhookLogs(i)
    \/ Routed("list") /\ ListInstances
    \/ \E s \in Slots : AuthLoaded(s)
    \/ \E s \in Slots : Registered(s)
    \/ \E i \in Ids : DeleteResume(i)

SpecApi == Init /\ [][NextApi]_vars

\* an invocation whose socket has reported the link open, for a stored row
OpenSock(i, row) ==
    [phase |-> "open", id |-> i, cfg |-> [url |-> row.url, tok |-> row.tok], rc |-> 0,
     code |-> 0, qrpc |-> "idle", openpc |-> "idle", closepc |-> "idle"]

\* The message relay: two connected instances, each with or without a webhook
\* and a token, receive messages while lifecycle events are delivered too
RelayIds == {"acme1", "acme2"}
RelaySlot(i) == IF i = "acme1" THEN 1 ELSE 2

InitRelay ==
    /\ instances = [i \in RelayIds |-> RelaySlot(i)]
    /\ rows \in [RelayIds -> StoredRows \ {NoRow}]
    /\ socks = [s \in 1..2 |-> OpenSock(CHOOSE i \in RelayIds : RelaySlot(i) = s,
                                        rows[CHOOSE i \in RelayIds : RelaySlot(i) = s])]
    /\ timers = EmptyBag
    /\ sessions = RelayIds
    /\ dels = [i \in RelayIds |-> 0]
    /\ ret = NoRet
    /\ stale = {}
    /\ WhIdle
    /\ NoStore
    /\ restore = NoRestore
    /\ relays = NoRelays

NextRelay ==
    \/ \E s \in Slots, mid \in MsgIds : MessagesUpsert(s, PlainText, mid)
    \/ \E h \in Relays : RelayLookup(h)
    \/ \E h \in Relays : RelayAck(h)
    \/ \E i \in RelayIds :
          ~RelaySending /\ WhCall(i, NoUrl, NoTok, DefaultRetries) /\ UNCHANGED relays
    \/ WhLookup
    \/ \E r \in Outcomes : WhResponse(r)
    \/ WhLogged
    \/ WhBackoffDone

SpecRelay == InitRelay /\ [][NextRelay]_vars

\* Classification: one connected instance with a webhook receives every
\* combination of message fields, one message at a time, and its webhook
\* answers every POST with a 2xx
InitClassify ==
    /\ instances = [i \in Ids |-> 1]
    /\ rows = [i \in Ids |-> [status |-> "connected", qr |-> NoQr, phone |-> "5551234",
                              url |-> "u1", tok |-> "t1"]]
    /\ socks = [s \in 1..MaxSocks |-> OpenSock(CHOOSE i \in Ids : TRUE,
                                               rows[CHOOSE i \in Ids : TRUE])]
    /\ timers = EmptyBag
    /\ sessions = Ids
    /\ dels = [i \in Ids |-> 0]
    /\ ret = NoRet
    /\ stale = {}
    /\ WhIdle
    /\ NoStore
    /\ restore = NoRestore
    /\ relays = NoRelays

NextClassify ==
    \/ \E s \in Slots, msg \in InboundMsgs :
          FreeRelays = Relays /\ MessagesUpsert(s, msg, "m1")
    \/ \E h \in Relays : RelayLookup(h)
    \/ \E h \in Relays : RelayAck(h)
    \/ WhResponse("2xx")
    \/ WhLogged

SpecClassify == InitClassify /\ [][NextClassify]_vars

\* The store: an instance receives messages and its events are delivered to
\* webhooks (sendWebhook with the default number of attempts) while the API
\* creates and deletes it
NextStore ==
    \/ \E i \in Ids, cfg \in Cfgs : ApiCreate(i, cfg)
    \/ \E s \in Slots : AuthLoaded(s)
    \/ \E s \in Slots : Registered(s)
    \/ \E s \in Slots, mid \in MsgIds : MessagesUpsert(s, PlainText, mid)
    \/ \E h \in Relays : RelayLookup(h)
    \/ \E h \in Relays : RelayAck(h)
    \/ \E i \in Ids : DeleteCall(i)
    \/ \E i \in Ids : DeleteResume(i)
    \/ \E i \in Ids, cfg \in Cfgs :
          ~RelaySending /\ WhCall(i, cfg.url, cfg.tok, DefaultRetries) /\ UNCHANGED relays
    \/ WhLookup
    \/ \E r \in Outcomes : WhResponse(r)
    \/ WhLogged
    \/ WhBackoffDone

SpecStore == Init /\ [][NextStore]_vars

\* Server start: restoreInstances runs over the table a previous run left,
\* before the API listens (no API call, and here no transport event, meanwhile)
RestoreIds == {"acme1", "acme2", "acme3"}

RestoreRows ==
    { NoRow,
      [name |-> "A", status |-> "connecting", qr |-> "qr", phone |-> NoPhone,
       url |-> "u1", tok |-> "t1"],
      [name |-> "A", status |-> "disconnected", qr |-> NoQr, phone |-> "5551234",
       url |-> "u1", tok |-> "t1"] }
    \cup { [name |-> n, status |-> "connected", qr |-> NoQr, phone |-> "5551234",
            url |-> cfg.url, tok |-> cfg.tok] : n \in {"A", "B"}, cfg \in Cfgs }

InitRestore ==
    /\ instances = [i \in RestoreIds |-> 0]
    /\ socks = [s \in 1..MaxRestore |-> Free]
    /\ timers = EmptyBag
    /\ rows \in [RestoreIds -> RestoreRows]
    /\ sessions = {i \in RestoreIds : rows[i] # NoRow}
    /\ dels = [i \in RestoreIds |-> 0]
    /\ ret = NoRet
    /\ stale = {}
    /\ WhIdle
    /\ NoStore
    /\ restore = NoRestore
    /\ relays = NoRelays

NextRestore ==
    \/ RestoreCall
    \/ RestoreSelected
    \/ RestoreSelectFails
    \/ \E i \in RestoreIds : RestoreCreate(i)
    \/ \E s \in Slots : AuthLoaded(s)
    \/ \E s \in Slots : CreateThrows(s)
    \/ \E s \in Slots : Registered(s)
    \/ RestoreResume

SpecRestore == InitRestore /\ [][NextRestore]_vars

\* A create whose upsert fails: the instance is created, closes and is retried
\* while the INSERT of any createInstance call may reject
NextLeak ==
    \/ \E i \in Ids : ApiCreate(i, [url |-> "u1", tok |-> "t1"])
    \/ \E s \in Slots : AuthLoaded(s)
    \/ \E s \in Slots : AuthLoadedUpsertRejected(s)
    \/ \E s \in Slots : UpsertThrows(s)
    \/ \E s \in Slots : Registered(s)
    \/ \E s \in Slots : OpenEvent(s)
    \/ \E s \in Slots : OpenEmit(s)
    \/ \E s \in Slots, code \in CloseCodes : CloseEvent(s, code)
    \/ \E s \in Slots : CloseEmit(s)
    \/ \E t \in BagToSet(timers) : TimerFires(t)

SpecLeak == Init /\ [][NextLeak]_vars

\* The webhook dispatcher when the INSERT INTO webhook_logs may reject
NextAudit ==
    \/ \E i \in Ids, cfg \in Cfgs \cup {[url |-> "u1", tok |-> NoTok]} :
          WhCall(i, cfg.url, cfg.tok, DefaultRetries) /\ UNCHANGED relays
    \/ WhLookup
    \/ \E r \in Outcomes : WhResponse(r)
    \/ \E r \in Outcomes : WhResponseLogRejected(r)
    \/ \E again \in BOOLEAN : WhLogRejected(again)
    \/ WhLogged
    \/ WhBackoffDone

SpecAudit == InitWebhook /\ [][NextAudit]_vars

\* Retries armed while one is pending: the API may create the instance again
\* between a close and the retry it armed
NextTimers ==
    \/ \E i \in Ids : ApiCreate(i, [url |-> "u1", tok |-> "t1"])
    \/ \E s \in Slots : AuthLoaded(s)
    \/ \E s \in Slots : Registered(s)
    \/ \E s \in Slots, code \in CloseCodes : CloseWithin(s, code, MaxPending)
    \/ \E s \in Slots : CloseEmit(s)
    \/ \E t \in BagToSet(timers) : TimerFires(t)

SpecTimers == Init /\ [][NextTimers]_vars

\* lines 435-444 of server.js: the process ends and is started again: what it
\* held in memory (the Map, sockets, timers, invocations in progress) is gone,
\* the tables and the session directories are as they were, and start() calls
\* restoreInstances, which awaits its SELECT, before the API listens
Restart ==
    /\ restore.pc = "idle"
    /\ instances' = [i \in DOMAIN instances |-> 0]
    /\ socks' = [s \in Slots |-> Free]
    /\ timers' = EmptyBag
    /\ dels' = [i \in DOMAIN dels |-> 0]
    /\ stale' = {}
    /\ wh' = [pc |-> "idle"] /\ posts' = <<>> /\ audit' = <<>> /\ waits' = <<>>
    /\ relays' = NoRelays
    /\ restore' = [pc |-> "select"]
    /\ ret' = Ret("restart", "", 0, "",
                  <<[op |-> "exit", n |-> 0, why |-> "",
                     held |-> {i \in DOMAIN instances : instances[i] # 0},
                     retrying |-> {t.id : t \in BagToSet(timers)}]>>)
    /\ UNCHANGED <<sessions, rows, logvars>>

\* A restart in the life of an instance: it is created once, connects, closes
\* and is retried; then the process is restarted and restoreInstances selects
\* the rows to restore
NextRestart ==
    \/ \E i \in Ids :
          /\ restore.pc = "idle" /\ rows[i] = NoRow
          /\ ApiCreate(i, [url |-> "u1", tok |-> "t1"])
    \/ \E s \in Slots : AuthLoaded(s)
    \/ \E s \in Slots : Registered(s)
    \/ \E s \in Slots : OpenEvent(s)
    \/ \E s \in Slots : OpenEmit(s)
    \/ \E s \in Slots, code \in CloseCodes : CloseEvent(s, code)
    \/ \E s \in Slots : CloseEmit(s)
    \/ \E t \in BagToSet(timers) : TimerFires(t)
    \/ Restart
    \/ RestoreSelected
    \/ RestoreSelectFails

SpecRestart == Init /\ [][NextRestart]_vars

\* ------------------------------------------------------------------ claims
\* the timer t of timers fires in this step
Fires(t) == BagIn(t, timers) /\ timers' = timers (-) SetToBag({t})
C2_RemovalFirst ==
    /\ ret.op = "close" =>
          /\ ret.eff[1].op = "instances.delete"
          /\ \A k \in 2..Len(ret.eff) :
                ret.eff[k].op \in {"rmSync", "setTimeout", "UPDATE"} /\ ~ret.eff[k].reg
    /\ \A s \in Slots : (~IsFree(s) /\ socks[s].closepc = "emit") => socks[s].phase = "closed"
    /\ ret.op = "closeEmit" => Ops(ret.eff) = <<"sendWebhook">>

C2_Witness ==
    /\ ret.op = "close"
    /\ Ops(ret.eff) = <<"instances.delete", "rmSync", "setTimeout">>

\* C3: once deleteInstance has completed for an id, a retry timer armed before
\* that fires as a no-op: no invocation starts and no socket, session
\* directory, row or Map entry is created.
C3_LateTimerIsNoOp ==
    [][\A t \in stale :
          Fires(t) =>
             /\ socks' = socks /\ sessions' = sessions
             /\ rows' = rows /\ instances' = instances]_vars

\* C4: the attempt count a retry timer passes to createInstance never exceeds
\* 5, no invocation runs with a count above 5, and a close handled at count 5
\* arms no timer.
C4_AtMostFiveRetries ==
    /\ \A t \in BagToSet(timers) : t.rc + 1 <= 5
    /\ \A s \in Slots : IsFree(s) \/ socks[s].rc <= 5
    /\ ret.op = "create" => ret.rc <= 5
    /\ (ret.op = "close" /\ ret.rc >= 5) => ~Has(ret.eff, "setTimeout")

C4_Witness ==
    ret.op = "close" /\ ret.rc = 5 /\ ret.res = "other"

\* C5: a close with a generic transient code at count c < 5 arms exactly one
\* timer, of 5 seconds, writes no status and leaves no disconnected event to
\* send; a timer that fires calls createInstance for its id with count c + 1.
C5_TransientCloseRetries ==
    [][/\ (ret'.op = "close" /\ ret'.res = "other" /\ ret'.rc < 5) =>
            /\ Ops(ret'.eff) = <<"instances.delete", "setTimeout">>
            /\ ret'.eff[2].n = 5
            /\ \E t \in BagToSet(timers') :
                  /\ t.id = ret'.id /\ t.rc = ret'.rc
                  /\ timers' = timers (+) SetToBag({t})
            /\ rows' = rows
            /\ \E s \in Slots :
                  /\ socks[s].phase \in {"conn", "open"} /\ socks[s].id = ret'.id
                  /\ \/ socks'[s].phase = "free"
                     \/ socks'[s].phase = "closed" /\ socks'[s].closepc = "idle"
       /\ \A t \in BagToSet(timers) :
            Fires(t) => (ret'.op = "create" /\ ret'.id = t.id /\ ret'.rc = t.rc + 1)
      ]_vars

C5_Witness ==
    /\ ret.op = "create" /\ ret.rc = 1 /\ ret.res = "pending"

C7_LogoutIsTerminal ==
    [][/\ (ret'.op = "close" /\ ret'.res = "loggedOut") =>
            /\ timers' = timers
            /\ Ops(ret'.eff) = <<"instances.delete", "UPDATE">>
            /\ rows'[ret'.id] # NoRow =>
                  (rows'[ret'.id].status = "disconnected" /\ rows'[ret'.id].qr = NoQr)
            /\ \E s \in Slots : /\ socks[s].phase \in {"conn", "open"}
                                 /\ socks'[s].phase = "closed"
                                 /\ socks'[s].closepc = "emit"
       /\ (ret'.op = "closeEmit" /\ ret'.res = "loggedOut") =>
            /\ Len(ret'.eff) = 1
            /\ ret'.eff[1].op = "sendWebhook" /\ ret'.eff[1].why = "logged_out"
            /\ \E s \in Slots : /\ ~IsFree(s) /\ socks[s].closepc = "emit"
                                 /\ (socks'[s].phase = "free" \/ socks'[s].closepc = "idle")
      ]_vars

C7_Witness ==
    /\ ret.op = "closeEmit" /\ ret.res = "loggedOut" /\ ret.rc = 3
    /\ rows[ret.id] # NoRow /\ rows[ret.id].status = "disconnected"

\* C8: the close handler writes status disconnected and goes on to send the
\* disconnected event exactly when the code is logged-out or the count is 5
\* or more, never together with a retry timer; the reason sent is logged_out
\* if and only if the code is logged-out, and failed otherwise.
C8_FailedOnlyWhenExhausted ==
    /\ ret.op = "close" =>
          /\ Has(ret.eff, "UPDATE") <=> (ret.res = "loggedOut" \/ ret.rc >= 5)
          /\ Has(ret.eff, "UPDATE") <=> ~Has(ret.eff, "setTimeout")
          /\ Has(ret.eff, "UPDATE") =>
                (rows[ret.id] # NoRow =>
                   (rows[ret.id].status = "disconnected" /\ rows[ret.id].qr = NoQr))
    /\ \A s \in Slots : (~IsFree(s) /\ socks[s].closepc = "emit") =>
          (socks[s].code = 401 \/ socks[s].rc >= 5)
    /\ ret.op = "closeEmit" =>
          /\ ret.eff[1].why \in {"logged_out", "failed"}
          /\ ret.eff[1].why = "logged_out" <=> ret.res = "loggedOut"
          /\ ret.eff[1].why = "failed" => ret.rc >= 5

C8_Witness ==
    ret.op = "closeEmit" /\ ret.eff[1].why = "failed" /\ ret.res = "405"

\* C9: createInstance called while the Map holds the id fails with
\* 'Instance already exists' and changes nothing: no invocation or socket,
\* the Map, the row and the session directory as before.
C9_AlreadyActiveChangesNothing ==
    [][(ret'.op = "create" /\ instances[ret'.id] # 0) =>
          /\ ret'.res = "Instance already exists"
          /\ instances' = instances /\ socks' = socks
          /\ rows' = rows /\ sessions' = sessions
      ]_vars

C9_Witness ==
    /\ ret.op = "create" /\ ret.res = "Instance already exists"
    /\ rows[ret.id] # NoRow /\ rows[ret.id].status = "connected"

\* C10: a sendWebhook call with a resolved URL and N >= 1 attempts issues the
\* POSTs 1..k, k the first attempt answered 2xx or N if none is, writes one
\* webhook_logs row per attempt (status code 0 when there was no response),
\* and returns true in the first case and false in the second.
C10_OneAuditRecordPerAttempt ==
    wh.pc \in {"post", "logged", "backoff", "done"} /\ wh.url # NoUrl =>
       /\ Len(posts) = wh.attempt /\ wh.attempt \in 1..wh.n
       /\ Len(audit) = IF wh.pc = "post" THEN wh.attempt - 1 ELSE wh.attempt
       /\ \A k \in 1..(Len(posts) - 1) : audit[k] \in {0, 500}
       /\ wh.pc # "post" =>
             audit[wh.attempt] = (CASE wh.last = "2xx" -> 200
                                    [] wh.last = "5xx" -> 500
                                    [] wh.last = "no response" -> 0)
       /\ wh.pc = "backoff" => audit[wh.attempt] # 200 /\ wh.attempt < wh.n
       /\ wh.pc = "done" =>
             /\ wh.res = "true" <=> audit[wh.attempt] = 200
             /\ wh.res = "false" <=> (audit[wh.attempt] # 200 /\ wh.attempt = wh.n)
             /\ wh.res \in {"true", "false"}

C10_Witness ==
    /\ wh.pc = "done" /\ wh.res = "false" /\ wh.n = 3
    /\ audit = <<500, 0, 500>> /\ Len(posts) = 3

\* C11: in sendWebhook the wait after a failed attempt a that is not the last
\* one is 2^(a-1) seconds (1, 2, 4, ...); there is no wait after a successful
\* attempt or after the last failed attempt.
C11_BackoffDoubles ==
    (wh.pc \in {"post", "logged", "backoff", "done"} /\ wh.attempt >= 1) =>
       /\ Len(waits) = IF wh.pc = "backoff" THEN wh.attempt ELSE wh.attempt - 1
       /\ \A k \in 1..Len(waits) : waits[k] = 2^(k - 1)
       /\ wh.pc = "backoff" => (wh.last # "2xx" /\ wh.attempt < wh.n)

C11_Witness ==
    /\ wh.pc = "done" /\ wh.res = "false" /\ wh.n = 4
    /\ waits = <<1, 2, 4>> /\ Len(audit) = 4

\* C12: sendWebhook called without a URL for an instance whose row is absent
\* or has no webhook_url returns false, with no POST issued and no
\* webhook_logs row written.
C12_NoUrlNoDelivery ==
    /\ (wh.pc = "done" /\ wh.url = NoUrl) =>
          (wh.res = "false" /\ posts = <<>> /\ audit = <<>> /\ waits = <<>>)
    /\ wh.pc \in {"post", "logged", "backoff"} => wh.url # NoUrl
    /\ wh.pc = "lookup" => (posts = <<>> /\ audit = <<>>)

C12_Witness ==
    /\ wh.pc = "done" /\ wh.url = NoUrl /\ wh.res = "false"
    /\ rows[wh.id] # NoRow /\ rows[wh.id].url = NoUrl

\* C13: when deleteInstance returns, with or without a socket in the Map and
\* whether sock.logout() resolved or threw, it returns success and the Map
\* has no entry, the session directory is gone and the instances row is gone.
C13_DeleteRemovesEverything ==
    ret.op = "delete" =>
       /\ ret.res = "success"
       /\ instances[ret.id] = 0
       /\ ret.id \notin sessions
       /\ rows[ret.id] = NoRow
       /\ dels[ret.id] = 0

C13_Witness ==
    /\ ret.op = "delete" /\ ret.eff # <<>> /\ ret.eff[1].why = "threw"
    /\ \E s \in Slots : ~IsFree(s) /\ socks[s].id = ret.id /\ socks[s].phase = "open"

\* C14: when deleteInstance has removed the instances row, no messages row
\* and no webhook_logs row with that instance id remains.
C14_DeleteCascades ==
    [][(ret'.op = "delete" /\ wh' = wh /\ rows[ret'.id] # NoRow) =>
          (/\ \A k \in 1..Len(messages') : messages'[k].inst # ret'.id
           /\ ret'.id \notin webhook_logs')]_vars

\* C15: the handlers of one socket's events run one after the other in event
\* order: once the handlers of a pairing challenge and of the link
\* established after it have all returned, the row is the later event's:
\* status connected and no QR payload.
C15_EventsInOrder ==
    \A s \in Slots :
       (/\ ~IsFree(s) /\ socks[s].phase = "open"
        /\ socks[s].qrpc = "idle" /\ socks[s].openpc = "idle"
        /\ rows[socks[s].id] # NoRow) =>
          (rows[socks[s].id].status = "connected" /\ rows[socks[s].id].qr = NoQr)

\* the qr handler of socket s persists its payload in this step
QrPersists(s) == ~IsFree(s) /\ socks[s].qrpc = "render" /\ socks'[s].qrpc = "emit"
\* the link of socket s is established in this step
Opens(s) == socks[s].phase = "conn" /\ socks'[s].phase = "open"

\* C16: the qr handler persists a non-null QR payload with status connecting
\* and then sends qr_updated with that payload; the open handler persists
\* status connected, the account's phone number and a null QR payload, and
\* then sends connected with that phone number.
C16_PairingThenConnected ==
    [][\A s \in Slots :
         /\ (QrPersists(s) /\ rows'[socks[s].id] # NoRow) =>
               /\ rows'[socks[s].id].qr = "qr" /\ rows'[socks[s].id].qr # NoQr
               /\ rows'[socks[s].id].status = "connecting"
         /\ (ret'.op = "qrEmit" /\ ~IsFree(s) /\ socks[s].qrpc = "emit") =>
               /\ Ops(ret'.eff) = <<"sendWebhook">>
               /\ ret'.res = "qr_updated" /\ ret'.eff[1].why = "qr"
         /\ (Opens(s) /\ rows'[socks[s].id] # NoRow) =>
               /\ rows'[socks[s].id].status = "connected"
               /\ rows'[socks[s].id].phone = "5551234"
               /\ rows'[socks[s].id].qr = NoQr
               /\ socks'[s].openpc = "emit"
         /\ (ret'.op = "openEmit" /\ ~IsFree(s) /\ socks[s].openpc = "emit") =>
               /\ Ops(ret'.eff) = <<"sendWebhook">>
               /\ ret'.res = "connected" /\ ret'.eff[1].why = "5551234"
      ]_vars

C16_Witness ==
    /\ ret.op = "openEmit" /\ ret.eff[1].why = "5551234"
    /\ rows[ret.id] # NoRow /\ rows[ret.id].url = "u1"
    /\ rows[ret.id].status = "connected" /\ rows[ret.id].phone = "5551234"
    /\ rows[ret.id].qr = NoQr

\* C17: an instances row never holds a non-null QR payload together with a
\* non-null phone number.
C17_QrAndPhoneExclusive ==
    \A i \in Ids :
       rows[i] # NoRow => ~(rows[i].qr # NoQr /\ rows[i].phone # NoPhone)

\* C18: an instances row with status connected or disconnected has a null QR
\* payload; a non-null QR payload occurs only with status connecting.
C18_QrOnlyWhileConnecting ==
    \A i \in Ids :
       rows[i] # NoRow =>
          /\ rows[i].status \in {"connected", "disconnected"} => rows[i].qr = NoQr
          /\ rows[i].qr # NoQr => rows[i].status = "connecting"

C18_Witness ==
    \E s \in Slots :
       /\ ~IsFree(s) /\ socks[s].phase = "open" /\ socks[s].qrpc = "emit"
       /\ rows[socks[s].id] # NoRow
       /\ rows[socks[s].id].status = "connected" /\ rows[socks[s].id].qr = NoQr

\* a terminal close was the last thing to write the status of i, and no
\* createInstance invocation or socket of i is in progress
TerminallyDisconnected(i) ==
    /\ rows[i] # NoRow /\ rows[i].status = "disconnected"
    /\ \A s \in Slots : (~IsFree(s) /\ socks[s].id = i) => socks[s].phase = "closed"

\* C19: after a terminal close of an id (logged out, or retries exhausted)
\* and until the API creates or deletes the id, no retry timer is pending
\* for it, no createInstance is called for it and its status stays
\* disconnected.
C19_TerminalIsStable ==
    [][\A i \in Ids :
         (/\ TerminallyDisconnected(i)
          /\ ~(ret'.op = "create" /\ ret'.id = i /\ timers' = timers)
          /\ dels'[i] = dels[i] /\ ~(ret'.op = "delete" /\ ret'.id = i)) =>
            /\ \A t \in BagToSet(timers) : t.id # i
            /\ ~(ret'.op = "create" /\ ret'.id = i)
            /\ rows'[i] # NoRow /\ rows'[i].status = "disconnected"
      ]_vars

\* the ids restoreInstances has called createInstance for
Restored == {restore.calls[k].id : k \in 1..Len(restore.calls)}

\* C20: restoreInstances calls createInstance, with count 0 and the row's
\* stored name, webhook URL and token, once for each row the SELECT found
\* with status connected and for no other; a call that fails is only logged
\* and the remaining rows are still restored; restoreInstances itself returns.
C20_RestoreOnlyConnected ==
    (restore.pc \in {"loop", "await", "done"} /\ restore.query = "ok") =>
       /\ \A k \in 1..Len(restore.calls) :
             LET c == restore.calls[k]
             IN /\ c.rc = 0
                /\ restore.snap[c.id] # NoRow /\ restore.snap[c.id].status = "connected"
                /\ c.name = restore.snap[c.id].name
                /\ c.url = restore.snap[c.id].url /\ c.tok = restore.snap[c.id].tok
                /\ \A j \in 1..Len(restore.calls) : restore.calls[j].id = c.id => j = k
       /\ Restored \cup restore.todo =
             {i \in RestoreIds : restore.snap[i] # NoRow /\ restore.snap[i].status = "connected"}
       /\ Restored \cap restore.todo = {}
       /\ \A s \in Slots : ~IsFree(s) =>
             (socks[s].rc = 0 /\ socks[s].id \in Restored
              /\ socks[s].cfg = [url |-> restore.snap[socks[s].id].url,
                                  tok |-> restore.snap[socks[s].id].tok])
       /\ restore.pc = "done" =>
             (restore.todo = {} /\ Len(restore.results) = Len(restore.calls))
       /\ (restore.pc = "loop" /\ restore.results # <<>>) => restore.todo # {}

C20_Witness ==
    /\ restore.pc = "done" /\ restore.query = "ok"
    /\ restore.results = <<"failed", "restored">>
    /\ \E i \in RestoreIds : restore.snap[i] # NoRow /\ restore.snap[i].status = "disconnected"

\* C21: updateWebhook stores the given URL and token, and storing them again
\* changes nothing more; it leaves the status, QR payload and phone number of
\* the row, the Map, the sockets and their attempt counts, the retry timers
\* and the session directories as they were and sends no webhook event.
C21_UpdateWebhookIdempotent ==
    [][ret'.op = "updateWebhook" =>
         LET i == ret'.id
             cfg == [url |-> ret'.eff[1].why, tok |-> ret'.eff[1].tok]
         IN /\ rows'[i].url = cfg.url /\ rows'[i].tok = cfg.tok
            /\ WebhookUpdate(rows'[i], cfg) = rows'[i]
            /\ rows'[i].status = rows[i].status
            /\ rows'[i].qr = rows[i].qr /\ rows'[i].phone = rows[i].phone
            /\ instances' = instances /\ socks' = socks /\ timers' = timers
            /\ sessions' = sessions /\ dels' = dels
            /\ Ops(ret'.eff) = <<"UPDATE">>
      ]_vars

C21_Witness ==
    /\ ret.op = "updateWebhook" /\ ret.eff[1].why = "u1"
    /\ rows[ret.id].status = "connected" /\ rows[ret.id].url = "u1"
    /\ instances[ret.id] # 0

\* createInstance of socket s issues its upsert in this step
Upserts(s) == ~IsFree(s) /\ socks[s].phase = "auth" /\ socks'[s].phase = "upsert"

\* C29: a createInstance called by a retry timer leaves the webhook URL and
\* token of the row as they are stored (by updateWebhook since the first
\* createInstance).
C29_RetryKeepsStoredWebhook ==
    [][\A s \in Slots :
         (Upserts(s) /\ socks[s].rc > 0 /\ rows[socks[s].id] # NoRow) =>
            /\ rows'[socks[s].id].url = rows[socks[s].id].url
            /\ rows'[socks[s].id].tok = rows[socks[s].id].tok
      ]_vars

\* C23: sendMessage for an id with a socket in the Map, whose transport send
\* resolves, calls sock.sendMessage once, inserts one messages row (outbound,
\* webhook_sent true, type image if an image was given and text otherwise)
\* and returns success with the id of the sent message.
C23_SendPersistsOutbound ==
    [][(ret'.op = "sendMessage" /\ ~NoSock(ret'.id) /\ ret'.res # "send failed") =>
          /\ Ops(ret'.eff) = <<"sock.sendMessage">>
          /\ ret'.res = "success"
          /\ Len(messages') = Len(messages) + 1
          /\ LET m == messages'[Len(messages')]
             IN /\ m.inst = ret'.id /\ m.dir = "out" /\ m.ack = TRUE
                /\ m.type = ret'.eff[1].why
      ]_vars

\* C24: sendMessage for an id without a socket in the Map (never created,
\* retry pending, terminally disconnected or deleted) throws 'not found'
\* without calling sock.sendMessage and without inserting a messages row.
C24_SendWithoutSockFails ==
    [][(ret'.op = "sendMessage" /\ instances[ret'.id] = 0) =>
          /\ ret'.res = "Instance not found or not connected"
          /\ ret'.eff = <<>>
          /\ messages' = messages
          /\ instances' = instances /\ socks' = socks /\ rows' = rows
          /\ timers' = timers /\ sessions' = sessions
      ]_vars

C24_Witness ==
    /\ ret.op = "sendMessage" /\ ret.res = "Instance not found or not connected"
    /\ \E t \in BagToSet(timers) : t.id = ret.id
    /\ rows[ret.id] # NoRow

\* C22: a messages row is inserted with webhook_sent false, and the flag of a
\* row becomes true only in the step in which the handler that inserted that
\* very row gets true from its sendWebhook call; the row of an instance
\* without a webhook is never flagged and its handler never calls sendWebhook.
C22_AckOnlyOwnDelivery ==
    [][/\ Len(messages') >= Len(messages)
       /\ \A k \in 1..Len(messages') :
             IF k > Len(messages)
             THEN ~messages'[k].ack
             ELSE (messages'[k].ack /\ ~messages[k].ack) =>
                     \E h \in Relays :
                        /\ relays[h].pc = "sending" /\ relays[h].row = messages[k].row
                        /\ wh.pc = "done" /\ wh.res = "true"
       /\ \A k \in 1..Len(messages') :
             NoWebhook(rows[messages'[k].inst]) => ~messages'[k].ack
       /\ \A h \in Relays :
             relays'[h].pc = "sending" => ~NoWebhook(rows[relays'[h].inst])
      ]_vars

\* the fields of an inbound message in the order of precedence, and the type
\* each one stands for
FieldOrder == <<"conversation", "extendedText", "image", "video", "audio", "document">>
FieldType == <<"text", "text", "image", "video", "audio", "document">>
Populated(msg) == {k \in 1..Len(FieldOrder) : msg[FieldOrder[k]] # Absent}
Winner(msg) == CHOOSE k \in Populated(msg) : \A j \in Populated(msg) : k <= j

\* C25: a message of somebody else is stored with the type of the first
\* populated field in the order conversation, extended text, image, video,
\* audio, document (text if none is populated) and with that field's body or
\* caption as text ('' if it has none); the handler carries the same type and
\* text to the webhook; a message of our own changes neither the messages
\* table nor any handler or delivery.
C25_ClassificationPrecedence ==
    [][(ret' # ret \/ Len(messages') > Len(messages)) =>
          LET msg == ret'.eff[1].msg
          IN IF msg.fromMe
             THEN /\ messages' = messages /\ relays' = relays
                  /\ wh' = wh /\ posts' = posts
             ELSE /\ Len(messages') = Len(messages) + 1
                  /\ LET m == messages'[Len(messages')]
                         type == IF Populated(msg) = {} THEN "text"
                                 ELSE FieldType[Winner(msg)]
                         body == IF Populated(msg) = {} THEN Bare
                                 ELSE msg[FieldOrder[Winner(msg)]]
                         text == IF body = Bare THEN "" ELSE body
                     IN /\ m.type = type /\ m.text = text /\ m.dir = "in"
                        /\ \E h \in Relays :
                              /\ relays'[h].pc = "lookup" /\ relays'[h].row = m.row
                              /\ relays'[h].type = type /\ relays'[h].text = text
      ]_vars

C25_Witness ==
    /\ ret.op = "messages.upsert" /\ ret.res = "stored"
    /\ ret.eff[1].msg.conversation # Absent /\ ret.eff[1].msg.image \notin {Absent, Bare}
    /\ messages # <<>> /\ messages[Len(messages)].type = "text"
    /\ messages[Len(messages)].text = ret.eff[1].msg.conversation

\* C26: every POST of a delivery carries the X-Webhook-Token header exactly
\* when the row of its instance has a token, with that token as value, whether
\* sendWebhook looked the configuration up or was given it by the handler of
\* messages.upsert.
C26_TokenHeaderIffConfigured ==
    \A k \in 1..Len(posts) :
       posts[k] = IF rows[wh.id].tok = NoTok THEN "absent" ELSE rows[wh.id].tok

C26_Witness ==
    /\ RelaySending /\ Len(posts) >= 2
    /\ \A k \in 1..Len(posts) : posts[k] = "t1"

\* the request carried the API key the server is configured with
CorrectKey(req) == req.key # Unset /\ req.why = req.key

\* C28: a request to any of the seven routes that does not carry the
\* configured API key is answered 401 by authMiddleware, so that the handler
\* of the route never runs.
C28_WrongKeyRejected ==
    (ret.op = "authMiddleware" /\ ~CorrectKey(ret.eff[1])) => ret.res = "401"

\* what the program holds for id i: its Map entry, its row, its session
\* directory, its pending retries and its invocations with their retryCount
IdState(i) ==
    <<instances[i], rows[i], i \in sessions, TimersOf(timers, i),
      [s \in {u \in Slots : ~IsFree(u) /\ socks[u].id = i} |-> socks[s]]>>

\* C27: a step changes the Map entry, row, session directory, pending retries
\* and invocations of at most one id, and when the step is a call or handler
\* of an id it changes those of no other id; a webhook delivery changes those
\* of no id; and while a retry or a delivery of another id is pending, a
\* connected socket's close is handled and a loaded auth state is acted on.
C27_InstancesIndependent ==
    /\ [][/\ \A a, b \in PairIds :
               a # b => (IdState(a)' = IdState(a) \/ IdState(b)' = IdState(b))
          /\ \A a, b \in PairIds :
               (a # b /\ ret' # ret /\ ret'.id = a) => IdState(b)' = IdState(b)
          /\ wh' # wh => \A a \in PairIds : IdState(a)' = IdState(a)
         ]_vars
    /\ [](\A s \in Slots :
            (/\ ~IsFree(s)
             /\ \/ \E t \in BagToSet(timers) : t.id # socks[s].id
                \/ wh.pc \in {"post", "logged", "backoff"} /\ wh.id # socks[s].id) =>
               /\ (socks[s].phase \in {"conn", "open"}
                     /\ TimersOf(timers, socks[s].id) = <<>>)
                     => \A code \in CloseCodes : ENABLED CloseEvent(s, code)
               /\ socks[s].phase = "auth" => ENABLED AuthLoaded(s))

C27_Witness ==
    /\ ret.op = "close" /\ ret.id = "acme2" /\ Has(ret.eff, "setTimeout")
    /\ \E t \in BagToSet(timers) : t.id = "acme1"
    /\ wh.pc = "backoff" /\ wh.id = "acme1"

\* id i has a row that says connecting or connected, but no socket in the
\* Map, no createInstance invocation or handler in progress and no retry timer
Abandoned(i) ==
    /\ rows[i] # NoRow /\ rows[i].status \in {"connecting", "connected"}
    /\ instances[i] = 0
    /\ ~\E s \in Slots : ~IsFree(s) /\ socks[s].id = i
    /\ \A t \in BagToSet(timers) : t.id # i

\* C30: with timers that fire and promises that settle, an instance is never
\* left for good with status connecting or connected, without a socket in the
\* Map and without a pending retry.
C30_RetryNeverAbandons ==
    \A i \in Ids : []<>(~Abandoned(i))

\* C31: an id whose row says connected has a socket in the Map, so that
\* getInstanceStatus never returns status connected with is_active false.
C31_ConnectedHasSock ==
    \A i \in DOMAIN rows :
       (rows[i] # NoRow /\ rows[i].status = "connected") => instances[i] # 0

\* C32: every transport connection that is open once its createInstance call
\* has returned or thrown is the one the Map holds for its id: a create whose
\* upsert fails has closed its connection or registered it.
C32_NoSocketOutsideMap ==
    \A s \in Slots :
       (~IsFree(s) /\ socks[s].phase \notin {"auth", "upsert", "insert failing", "closed"})
          => instances[socks[s].id] = s

\* C33: once a POST of a delivery was answered 2xx and the INSERT INTO
\* webhook_logs of that attempt has failed, the delivery issues no further
\* POST and does not return false.
C33_AuditFailureKeepsOutcome ==
    [][(/\ wh.pc \in {"log failing", "logged", "backoff"}
        /\ (wh.last = "2xx" /\ wh.pc = "log failing") \/ wh.last = InsertFailed) =>
          /\ Len(posts') = Len(posts)
          /\ ~(wh'.pc = "done" /\ wh'.res = "false")
          /\ wh'.pc # "backoff"
      ]_vars

\* C34: an id never has more than one retry timer pending.
C34_OneTimerPerId ==
    \A i \in DOMAIN instances : BagSize(TimersOf(timers, i)) <= 1

\* C35: a link-established event leaves the retryCount of its invocation as it
\* is, a close arms its retry with that retryCount, the retry's createInstance
\* runs with one more, and no createInstance runs with more than 5: at most 5
\* automatic re-creates follow one API create, however often the link was
\* established in between.
C35_RetryCountNeverReset ==
    /\ [][/\ \A s \in Slots :
               (~IsFree(s) /\ socks[s].phase = "conn" /\ socks'[s].phase = "open")
                  => socks'[s].rc = socks[s].rc
          /\ (ret'.op = "close" /\ Has(ret'.eff, "setTimeout") /\ timers' # timers) =>
                \E t \in BagToSet(timers') :
                   /\ CopiesIn(t, timers') = CopiesIn(t, timers) + 1
                   /\ t.id = ret'.id /\ t.rc = ret'.rc
                   /\ \E s \in Slots : socks[s].phase \in {"conn", "open"}
                                        /\ socks[s].id = t.id /\ socks[s].rc = t.rc
          /\ \A t \in BagToSet(timers) :
               (Fires(t) /\ ret'.op = "create") => ret'.rc = t.rc + 1
         ]_vars
    /\ [](\A s \in Slots : ~IsFree(s) => socks[s].rc <= MaxReconnects)

C35_Witness ==
    /\ ret.op = "close" /\ ret.rc >= 1 /\ Has(ret.eff, "setTimeout")
    /\ rows[ret.id] # NoRow /\ rows[ret.id].status = "connected"
    /\ \E t \in BagToSet(timers) : t.id = ret.id /\ t.rc = ret.rc

\* C36: at a restart, every id that had been connected (its row has a phone
\* number) and had a socket in the Map or a retry timer pending is among the
\* rows restoreInstances selects.
C36_RestoreSelectsActive ==
    [][(ret.op = "restart" /\ restore.pc = "select" /\ restore'.pc \in {"loop", "done"}
         /\ restore'.query = "ok") =>
          \A i \in ret.eff[1].held \cup ret.eff[1].retrying :
             (rows[i] # NoRow /\ rows[i].phone # NoPhone) => i \in restore'.todo
      ]_vars

====
